---- MODULE Spec2Model ----
\* A model of src/server.js: the shared browser pool (getBrowser, restartBrowser),
\* the retry wrapper (retryOperation), the session registry with its eviction
\* timers (cleanupSession, resetSessionTimeout), the HTML sanitizer and the
\* socket command handlers.  Every async handler is cut at its awaits: one action
\* per synchronous stretch of code.
EXTENDS Integers, Sequences, FiniteSets, TLC

\* ---------------------------------------------------------------- constants
\* server.js:24-27
MAX_RETRIES == 3
RETRY_DELAY == 1000
SESSION_TIMEOUT == 10 * 60 * 1000

\* server.js:26 sets the capacity to 50.  The registry is checked with a scaled
\* capacity: every formula below is written against MAX_SESSIONS, never against
\* the number, and NSockets is kept larger than MAX_SESSIONS.
MAX_SESSIONS == 1

\* ------------------------------------------------------------------- bounds
\* connections opened over the life of the process (socket ids 1..NSockets)
NSockets == 2
\* pages one socket's init handlers may create (a second init re-creates)
MaxInits == 2
\* browser processes launched over the life of the process
MaxBrowsers == 2
\* timer handles per socket id that may be live at once
MaxHandles == 3
\* cleanupSession calls of one socket id that may be suspended at once
MaxCleanups == 2
\* clock ticks per idle window
TicksPerWindow == 2

Sockets == 1..NSockets
PageIds == 1..MaxInits
Browsers == 1..MaxBrowsers
Handles == 1..MaxHandles
Slots == 1..MaxCleanups
Quantum == SESSION_TIMEOUT \div TicksPerWindow

VARIABLES
  \* --- browser pool (server.js:34-35) and the processes puppeteer launched
  browserInstance,            \* 0 = null, else the handle of a launched browser
  browserRestartInProgress,
  launched,                   \* number of browsers launched so far
  connected,                  \* the launched browsers whose process is alive
  restartN,                   \* restartBrowser runs suspended at each await, and
                              \* (ghost) "returned": 1 once a call has returned
                              \* at the guard during the running restart
  \* --- registry (server.js:30-31)
  sessions,                   \* socket id -> 0 (no entry) or its session's page
  sessionTimers,              \* socket id -> 0 (no entry) or a timer handle
  timers,                     \* socket id -> armed handles -> ms left
  sinceTouch,                 \* ms since resetSessionTimeout last ran for the id
  cleaned,                    \* ids whose entry cleanupSession has deleted (ghost)
  \* --- sockets and pages
  sock,                       \* "idle" | "open" | "rejected" | "closed"
  pageState,                  \* [socket][page] "none" | "open" | "closed"
  pageBrowser,                \* [socket][page] the browser the page lives in
  detachCalls,                \* [socket][page] client.detach() calls (ghost)
  closeCalls,                 \* [socket][page] page.close() calls (ghost)
  \* --- suspended handlers
  initT,                      \* socket -> the init handler in flight
  cmdT,                       \* socket -> the command handler in flight
  cmdLog,                     \* socket -> events emitted by its latest command
  cleanT,                     \* socket -> slot -> a suspended cleanupSession
  \* --- the process
  shutdown,                   \* the run of gracefulShutdown (server.js:539-556)
  \* --- the pure functions, each under its own specification
  retry,
  nav,
  doc

poolVars == <<browserInstance, browserRestartInProgress, launched, connected,
              restartN>>
regVars == <<sessions, sessionTimers, timers, sinceTouch, cleaned>>
pageVars == <<pageState, pageBrowser, detachCalls, closeCalls>>
taskVars == <<initT, cmdT, cmdLog, cleanT>>
pureVars == <<retry, nav, doc>>
otherVars == <<shutdown, pureVars>>
serverVars == <<poolVars, regVars, sock, pageVars, taskVars, shutdown>>
vars == <<poolVars, regVars, sock, pageVars, taskVars, shutdown, pureVars>>

NoTask == [pc |-> "idle", i |-> 0, b |-> 0, p |-> 0]
NoClean == [pc |-> "idle", by |-> "", p |-> 0]

\* The suspended runs of cleanupSession for one id are a bag: which slot holds
\* which run is not program state, so the slots are kept in one fixed order
\* (detaching before closing before idle, then by page, then timer first).
RunRank(t) ==
  (CASE t.pc = "detach" -> 0 [] t.pc = "close" -> 1 [] OTHER -> 2) * 100
    + t.p * 10 + (CASE t.by = "timer" -> 0 [] t.by = "disconnect" -> 1 [] OTHER -> 2)

Ordered(c) == SortSeq(c, LAMBDA a, b : RunRank(a) < RunRank(b))

\* ------------------------------------------------------------- browser pool
\* server.js:53  browserInstance && browserInstance.isConnected()
HaveBrowser == browserInstance # 0 /\ browserInstance \in connected

\* server.js:56-98  puppeteer.launch resolved: the handle is stored and the
\* 'disconnected' listener attached
Launched ==
  /\ launched < MaxBrowsers
  /\ launched' = launched + 1
  /\ browserInstance' = launched + 1
  /\ connected' = connected \cup {launched + 1}

\* restartBrowser without its guard: the variant C15 must tell apart
restartBrowserUnguarded ==
  /\ browserRestartInProgress' = TRUE
  /\ restartN' = [restartN EXCEPT !["settle"] = @ + 1]

\* server.js:109-119  restartBrowser up to its first await
restartBrowser ==
  IF browserRestartInProgress
  THEN /\ restartN' = [restartN EXCEPT !["returned"] = 1]
       /\ UNCHANGED browserRestartInProgress
  ELSE /\ browserRestartInProgress' = TRUE
       /\ LET at == IF browserInstance' # 0 THEN "close" ELSE "settle"
          IN restartN' = [restartN EXCEPT ![at] = @ + 1]

\* server.js:92-96  the process of browser b dies; its listener runs
BrowserDisconnected(b) ==
  /\ b \in connected
  /\ connected' = connected \ {b}
  /\ browserInstance' = 0
  /\ restartBrowser
  /\ UNCHANGED <<launched, regVars, sock, pageVars, taskVars, otherVars>>

\* server.js:117-122  restartBrowser resumes after close() or after the 2 s
\* settle delay; after the delay it calls getBrowser
RestartStep(at) ==
  /\ at \in {"close", "settle"}
  /\ restartN[at] > 0
  /\ IF at = "close"
     THEN /\ restartN' = [restartN EXCEPT !["close"] = @ - 1, !["settle"] = @ + 1]
          /\ connected' = connected \ {browserInstance}
          /\ browserInstance' = 0
          /\ UNCHANGED browserRestartInProgress
     ELSE IF HaveBrowser
     THEN /\ restartN' = [restartN EXCEPT !["settle"] = @ - 1, !["returned"] = 0]
          /\ browserRestartInProgress' = FALSE
          /\ UNCHANGED <<browserInstance, connected>>
     ELSE /\ restartN' = [restartN EXCEPT !["settle"] = @ - 1, !["launch"] = @ + 1]
          /\ UNCHANGED <<browserInstance, browserRestartInProgress, connected>>
  /\ UNCHANGED <<launched, regVars, sock, pageVars, taskVars, otherVars>>

\* server.js:56-105,124-129  the launch awaited by restartBrowser settles
RestartLaunched(ok) ==
  /\ restartN["launch"] > 0
  /\ restartN' = [restartN EXCEPT !["launch"] = @ - 1, !["returned"] = 0]
  /\ browserRestartInProgress' = FALSE
  /\ IF ok THEN Launched ELSE UNCHANGED <<browserInstance, launched, connected>>
  /\ UNCHANGED <<regVars, sock, pageVars, taskVars, otherVars>>

\* The protocol has one command in flight per connection (spec section 5): a
\* client sends its next event once the previous handler has finished.
Quiet(s) == initT[s].pc = "idle" /\ cmdT[s].pc = "idle"

\* a page that outlives its browser: the variant C20 must tell apart
PageUsableAfterRestart(s, p) == pageState[s][p] = "open"

\* an operation on page p of connection s can succeed
PageUsable(s, p) == pageState[s][p] = "open" /\ pageBrowser[s][p] \in connected

\* Pages are named per connection.  A closed page that neither the registry nor
\* a suspended handler references any more cannot be reached again: it is
\* forgotten and its name reused.  ps, sess, cmd, clean: the connection's pages,
\* registry entry, command handler and cleanups after the step.
Forgotten(ps, sess, cmd, clean) ==
  {k \in PageIds : /\ ps[k] = "closed"
                   /\ sess # k
                   /\ cmd.p # k
                   /\ \A n \in Slots : clean[n].pc = "idle" \/ clean[n].p # k}

Forget(s, ps, sess, cmd, clean) ==
  LET gone == Forgotten(ps, sess, cmd, clean)
      Zero(f) == [f EXCEPT ![s] = [k \in PageIds |-> IF k \in gone THEN 0 ELSE f[s][k]]]
  IN /\ pageState' = [pageState EXCEPT ![s] =
                        [k \in PageIds |-> IF k \in gone THEN "none" ELSE ps[k]]]
     /\ pageBrowser' = Zero(pageBrowser)
     /\ detachCalls' = Zero(detachCalls)
     /\ closeCalls' = Zero(closeCalls)

\* ------------------------------------------------------------------- events
\* server.js:44,208  sessions.size
Size == Cardinality({s \in Sockets : sessions[s] # 0})

\* cmdLog[s]: the latest event of connection s the server handled (cmd), the
\* kind of payload it carried (arg, "" for the events that carry none), whether
\* the id had a registry entry (had) and the registry was at capacity (full) when
\* it arrived, what the handler has emitted to the socket so far (ev), and
\* whether the handler has finished (done), and how the capture of html, title
\* and url went once the handler has got there (cap: "ok" or "failed")
\* nothing handled yet
NoLog ==
  [cmd |-> "none", arg |-> "", had |-> FALSE, full |-> FALSE, ev |-> <<>>, done |-> TRUE,
   cap |-> ""]

\* the kind of a payload, as far as the handler gets to see it: the three known
\* actions are one kind, and a payload object is not looked into by a handler
\* that finds no session (had = FALSE)
Kind(arg, had) ==
  IF arg \in {"", "nopayload"} THEN arg
  ELSE IF ~had THEN "payload"
  ELSE IF arg \in {"back", "forward", "refresh"} THEN "action"
  ELSE arg

LogOf(cmd, arg, had, ev, done) ==
  [cmd |-> cmd, arg |-> Kind(arg, had), had |-> had, full |-> Size >= MAX_SESSIONS, ev |-> ev,
   done |-> done, cap |-> ""]

Emit(s, ev, done) ==
  cmdLog' = [cmdLog EXCEPT ![s].ev = @ \o ev, ![s].done = done]

\* the handler ends after its capture: captured tells whether page.content() and
\* page.title() both resolved
EmitAfterCapture(s, ev, captured) ==
  cmdLog' = [cmdLog EXCEPT ![s].ev = @ \o ev, ![s].done = TRUE,
                           ![s].cap = IF captured THEN "ok" ELSE "failed"]

\* ----------------------------------------------------------------- registry
Drop(f, h) == [x \in DOMAIN f \ {h} |-> f[x]]
Put(f, h, v) == [x \in DOMAIN f \cup {h} |-> IF x = h THEN v ELSE f[x]]
Least(S) == CHOOSE x \in S : \A y \in S : x <= y

\* resetSessionTimeout without its clearTimeout: the variant C6 must tell apart
ClearTimerMissing(s) == timers[s]

\* server.js:179-181  the armed timers of id s once the handle the table holds
\* has been cleared (clearTimeout of a fired handle does nothing)
ClearTimer(s) ==
  IF sessionTimers[s] # 0 THEN Drop(timers[s], sessionTimers[s]) ELSE timers[s]

\* server.js:178-189  resetSessionTimeout.  setTimeout returns a handle distinct
\* from every live one, the table's current entry included.
resetSessionTimeout(s) ==
  LET free == {h \in Handles : h \notin DOMAIN ClearTimer(s) /\ h # sessionTimers[s]}
  IN /\ free # {}
     /\ timers' = [timers EXCEPT ![s] = Put(ClearTimer(s), Least(free), SESSION_TIMEOUT)]
     /\ sessionTimers' = [sessionTimers EXCEPT ![s] = Least(free)]
     /\ sinceTouch' = [sinceTouch EXCEPT ![s] = 0]

\* server.js:148-162  cleanupSession(s) up to its first await, called by the
\* timer callback or by the disconnect handler (by); tm is the timer state it
\* starts from
cleanupSession(s, by, tm) ==
  IF sessions[s] = 0
  THEN /\ timers' = tm
       /\ sinceTouch' = [sinceTouch EXCEPT ![s] = IF DOMAIN tm[s] = {} THEN 0 ELSE @]
       /\ UNCHANGED <<sessionTimers, detachCalls, cleanT>>
  ELSE LET free == {n \in Slots : cleanT[s][n].pc = "idle"}
           left == Drop(tm[s], sessionTimers[s])
       IN /\ free # {}
          /\ timers' = [tm EXCEPT ![s] = left]
          /\ sinceTouch' = [sinceTouch EXCEPT ![s] = IF DOMAIN left = {} THEN 0 ELSE @]
          /\ sessionTimers' = [sessionTimers EXCEPT ![s] = 0]
          /\ detachCalls' = [detachCalls EXCEPT ![s][sessions[s]] = @ + 1]
          /\ cleanT' = [cleanT EXCEPT ![s] = Ordered([@ EXCEPT ![Least(free)] =
                          [pc |-> "detach", by |-> by, p |-> sessions[s]]])]

\* server.js:161-170  detach() settled (its rejection is swallowed): close the
\* page if it is not closed yet, else delete the entry
CleanupDetached(s, n) ==
  /\ cleanT[s][n].pc = "detach"
  /\ IF pageState[s][cleanT[s][n].p] = "open"
     THEN /\ closeCalls' = [closeCalls EXCEPT ![s][cleanT[s][n].p] = @ + 1]
          /\ cleanT' = [cleanT EXCEPT ![s] = Ordered([@ EXCEPT ![n].pc = "close"])]
          /\ UNCHANGED <<sessions, cleaned, pageState, pageBrowser, detachCalls>>
     ELSE /\ sessions' = [sessions EXCEPT ![s] = 0]
          /\ cleaned' = cleaned \cup {s}
          /\ cleanT' = [cleanT EXCEPT ![s] = Ordered([@ EXCEPT ![n] = NoClean])]
          /\ Forget(s, pageState[s], 0, cmdT[s], cleanT'[s])
  /\ UNCHANGED <<poolVars, sessionTimers, timers, sinceTouch, sock, initT, cmdT, cmdLog,
                 otherVars>>

\* server.js:166-170  close() settled (its rejection is swallowed): the page is
\* closed and the entry deleted
CleanupClosed(s, n) ==
  /\ cleanT[s][n].pc = "close"
  /\ sessions' = [sessions EXCEPT ![s] = 0]
  /\ cleaned' = cleaned \cup {s}
  /\ cleanT' = [cleanT EXCEPT ![s] = Ordered([@ EXCEPT ![n] = NoClean])]
  /\ Forget(s, [pageState[s] EXCEPT ![cleanT[s][n].p] = "closed"], 0, cmdT[s], cleanT'[s])
  /\ UNCHANGED <<poolVars, sessionTimers, timers, sinceTouch, sock, initT, cmdT, cmdLog,
                 otherVars>>

\* server.js:183-186  an armed timer of id s is due: its callback runs
\* cleanupSession(s)
SessionTimeout(s, h) ==
  /\ h \in DOMAIN timers[s]
  /\ timers[s][h] = 0
  /\ cleanupSession(s, "timer", [timers EXCEPT ![s] = Drop(@, h)])
  /\ UNCHANGED <<poolVars, sessions, cleaned, sock, pageState, pageBrowser, closeCalls, initT,
                 cmdT, cmdLog, otherVars>>

\* The clock advances by one quantum; a due timer runs before it advances again.
Tick ==
  /\ \E s \in Sockets : DOMAIN timers[s] # {}
  /\ \A s \in Sockets : \A h \in DOMAIN timers[s] : timers[s][h] > 0
  /\ timers' = [s \in Sockets |->
                  [h \in DOMAIN timers[s] |->
                     IF timers[s][h] > Quantum THEN timers[s][h] - Quantum ELSE 0]]
  /\ sinceTouch' = [s \in Sockets |->
                      IF DOMAIN timers[s] = {} THEN 0
                      ELSE IF sinceTouch[s] + Quantum < SESSION_TIMEOUT
                      THEN sinceTouch[s] + Quantum ELSE SESSION_TIMEOUT]
  /\ UNCHANGED <<poolVars, sessions, cleaned, sessionTimers, sock, pageVars, taskVars, otherVars>>

\* ------------------------------------------------------------------ sockets
\* server.js:204-215  a client connects; socket ids are handed out in order
Connection(s) ==
  /\ sock[s] = "idle"
  /\ \A t \in Sockets : t < s => sock[t] # "idle"
  /\ IF Size >= MAX_SESSIONS
     THEN /\ sock' = [sock EXCEPT ![s] = "rejected"]
          /\ cmdLog' = [cmdLog EXCEPT ![s] =
                          LogOf("connection", "", FALSE, <<"error:MAX_SESSIONS_REACHED">>, TRUE)]
     ELSE /\ sock' = [sock EXCEPT ![s] = "open"]
          /\ cmdLog' = [cmdLog EXCEPT ![s] = LogOf("connection", "", FALSE, <<>>, TRUE)]
  /\ UNCHANGED <<poolVars, regVars, pageVars, initT, cmdT, cleanT, otherVars>>

\* server.js:533-536  the client goes away; the handler runs cleanupSession
Disconnect(s) ==
  /\ sock[s] = "open"
  /\ sock' = [sock EXCEPT ![s] = "closed"]
  /\ cleanupSession(s, "disconnect", timers)
  /\ UNCHANGED <<poolVars, sessions, cleaned, pageState, pageBrowser, closeCalls, initT, cmdT,
                 cmdLog, otherVars>>

\* --------------------------------------------------------------------- init
\* server.js:51-56  getBrowser as called by init's retryOperation: returns the
\* pooled instance, or starts a launch
InitAcquire(s, i) ==
  initT' = [initT EXCEPT ![s] =
              IF HaveBrowser THEN [pc |-> "page", i |-> i, b |-> browserInstance, p |-> 0]
              ELSE [pc |-> "launch", i |-> i, b |-> 0, p |-> 0]]

\* server.js:218-220  'init' arrives
init(s) ==
  /\ sock[s] = "open"
  /\ Quiet(s)
  /\ \E k \in PageIds : pageState[s][k] = "none"
  /\ InitAcquire(s, 0)
  /\ cmdLog' = [cmdLog EXCEPT ![s] = LogOf("init", "", sessions[s] # 0, <<>>, FALSE)]
  /\ UNCHANGED <<poolVars, regVars, sock, pageVars, cmdT, cleanT, otherVars>>

\* server.js:56-105,133-143,297-303  the launch awaited by init settles: the
\* browser is pooled, or retryOperation backs off, or gives up with INIT_ERROR
InitLaunched(s, ok) ==
  /\ initT[s].pc = "launch"
  /\ IF ok
     THEN /\ Launched
          /\ initT' = [initT EXCEPT ![s].pc = "page", ![s].b = launched + 1]
          /\ UNCHANGED cmdLog
     ELSE /\ UNCHANGED <<browserInstance, launched, connected>>
          /\ IF initT[s].i = MAX_RETRIES - 1
             THEN /\ initT' = [initT EXCEPT ![s] = NoTask]
                  /\ Emit(s, <<"error:INIT_ERROR">>, TRUE)
             ELSE /\ initT' = [initT EXCEPT ![s].pc = "backoff"]
                  /\ UNCHANGED cmdLog
  /\ UNCHANGED <<browserRestartInProgress, restartN, regVars, sock, pageVars, cmdT,
                 cleanT, otherVars>>

\* server.js:134,142  the backoff delay elapsed: the next attempt
InitRetry(s) ==
  /\ initT[s].pc = "backoff"
  /\ InitAcquire(s, initT[s].i + 1)
  /\ UNCHANGED <<poolVars, regVars, sock, pageVars, cmdT, cmdLog, cleanT, otherVars>>

\* server.js:221  browser.newPage() settled
InitNewPage(s) ==
  /\ initT[s].pc = "page"
  /\ IF initT[s].b \in connected
     THEN LET k == Least({x \in PageIds : pageState[s][x] = "none"})
          IN /\ pageState' = [pageState EXCEPT ![s][k] = "open"]
             /\ pageBrowser' = [pageBrowser EXCEPT ![s][k] = initT[s].b]
             /\ initT' = [initT EXCEPT ![s].pc = "setup", ![s].p = k]
             /\ UNCHANGED cmdLog
     ELSE /\ initT' = [initT EXCEPT ![s] = NoTask]
          /\ Emit(s, <<"error:INIT_ERROR">>, TRUE)
          /\ UNCHANGED <<pageState, pageBrowser>>
  /\ UNCHANGED <<poolVars, regVars, sock, detachCalls, closeCalls, cmdT, cleanT,
                 otherVars>>

\* server.js:224-303  the page set-up calls settled: the session is stored, its
\* timer armed and 'ready' emitted, or a call threw and INIT_ERROR is emitted
InitSetup(s, ok) ==
  /\ initT[s].pc = "setup"
  /\ ok => PageUsable(s, initT[s].p)
  /\ initT' = [initT EXCEPT ![s] = NoTask]
  /\ IF ok
     THEN /\ sessions' = [sessions EXCEPT ![s] = initT[s].p]
          /\ resetSessionTimeout(s)
          /\ UNCHANGED cleaned
          /\ Emit(s, <<"ready">>, TRUE)
     ELSE /\ Emit(s, <<"error:INIT_ERROR">>, TRUE)
          /\ UNCHANGED regVars
  /\ UNCHANGED <<poolVars, sock, pageVars, cmdT, cleanT, otherVars>>

\* ----------------------------------------------------------------- commands
\* server.js:307-335  'navigate' arrives.  arg: "nopayload" (the event carries no
\* object, so destructuring { url } throws before the handler's try), "badurl"
\* (url missing or not a string) or "url"
navigate(s, arg) ==
  /\ sock[s] = "open"
  /\ Quiet(s)
  /\ IF arg = "nopayload"
     THEN /\ cmdLog' = [cmdLog EXCEPT ![s] = LogOf("navigate", arg, sessions[s] # 0, <<>>, TRUE)]
          /\ UNCHANGED <<regVars, cmdT>>
     ELSE IF sessions[s] = 0
     THEN /\ cmdLog' = [cmdLog EXCEPT ![s] =
                          LogOf("navigate", arg, FALSE, <<"error:NO_SESSION">>, TRUE)]
          /\ UNCHANGED <<regVars, cmdT>>
     ELSE /\ resetSessionTimeout(s)
          /\ UNCHANGED <<sessions, cleaned>>
          /\ IF arg = "badurl"
             THEN /\ cmdLog' = [cmdLog EXCEPT ![s] =
                       LogOf("navigate", arg, TRUE,
                             <<"error:NAVIGATION_ERROR", "loading:false">>, TRUE)]
                  /\ UNCHANGED cmdT
             ELSE /\ cmdLog' = [cmdLog EXCEPT ![s] =
                       LogOf("navigate", arg, TRUE, <<"loading:true">>, FALSE)]
                  /\ cmdT' = [cmdT EXCEPT ![s] =
                       [pc |-> "goto", i |-> 0, b |-> 0, p |-> sessions[s]]]
  /\ UNCHANGED <<poolVars, sock, pageVars, initT, cleanT, otherVars>>

\* server.js:338-388  one page.goto attempt settled.  On success the snapshot is
\* captured and emitted: page.content() and page.title() each have their own
\* .catch with a placeholder (lines 350-351), so page-content is emitted whether
\* or not they resolved (captured).  On failure retryOperation backs off and
\* tries again, or gives up
NavigateGoto(s, ok, captured) ==
  /\ cmdT[s].pc = "goto"
  /\ ok => PageUsable(s, cmdT[s].p)
  /\ ~ok => captured
  /\ IF ok
     THEN /\ EmitAfterCapture(s, <<"page-content", "loading:false">>, captured)
          /\ cmdT' = [cmdT EXCEPT ![s] = NoTask]
     ELSE IF cmdT[s].i = MAX_RETRIES - 1
     THEN /\ Emit(s, <<"error:NAVIGATION_ERROR", "loading:false">>, TRUE)
          /\ cmdT' = [cmdT EXCEPT ![s] = NoTask]
     ELSE /\ cmdT' = [cmdT EXCEPT ![s].i = @ + 1]
          /\ UNCHANGED cmdLog
  /\ Forget(s, pageState[s], sessions[s], cmdT'[s], cleanT[s])
  /\ UNCHANGED <<poolVars, regVars, sock, initT, cleanT, otherVars>>

\* server.js:392-414  'browser-action' arrives
browserAction(s, arg) ==
  /\ sock[s] = "open"
  /\ Quiet(s)
  /\ IF arg = "nopayload" \/ sessions[s] = 0
     THEN /\ cmdLog' = [cmdLog EXCEPT ![s] =
                          LogOf("browser-action", arg, sessions[s] # 0, <<>>, TRUE)]
          /\ UNCHANGED <<regVars, cmdT>>
     ELSE /\ resetSessionTimeout(s)
          /\ UNCHANGED <<sessions, cleaned>>
          /\ IF arg \in {"back", "forward", "refresh"}
             THEN /\ cmdLog' = [cmdLog EXCEPT ![s] =
                       LogOf("browser-action", arg, TRUE, <<"loading:true">>, FALSE)]
                  /\ cmdT' = [cmdT EXCEPT ![s] =
                       [pc |-> "browser-action", i |-> 0, b |-> 0, p |-> sessions[s]]]
             ELSE /\ cmdLog' = [cmdLog EXCEPT ![s] =
                       LogOf("browser-action", arg, TRUE,
                             <<"loading:true", "error:ACTION_ERROR", "loading:false">>,
                             TRUE)]
                  /\ UNCHANGED cmdT
  /\ UNCHANGED <<poolVars, sock, pageVars, initT, cleanT, otherVars>>

\* handlers that all call resetSessionTimeout: the variant C14 must tell apart
RearmsAll(cmd) == TRUE

\* server.js:454,515 against 499-500  click and input call resetSessionTimeout,
\* scroll does not
Rearms(cmd) == cmd # "scroll"

\* server.js:449-455, 495-500, 510-516  'click', 'scroll' or 'input' arrives;
\* scroll is the one handler that does not call resetSessionTimeout
Start(s, cmd, arg) ==
  /\ sock[s] = "open"
  /\ Quiet(s)
  /\ cmdLog' = [cmdLog EXCEPT ![s] =
                  LogOf(cmd, arg, sessions[s] # 0, <<>>, arg = "nopayload" \/ sessions[s] = 0)]
  /\ IF arg = "nopayload" \/ sessions[s] = 0
     THEN UNCHANGED <<regVars, cmdT>>
     ELSE /\ cmdT' = [cmdT EXCEPT ![s] = [pc |-> cmd, i |-> 0, b |-> 0, p |-> sessions[s]]]
          /\ IF Rearms(cmd) THEN resetSessionTimeout(s) /\ UNCHANGED <<sessions, cleaned>>
             ELSE UNCHANGED regVars
  /\ UNCHANGED <<poolVars, sock, pageVars, initT, cleanT, otherVars>>

click(s, arg) == Start(s, "click", arg)
scroll(s, arg) == Start(s, "scroll", arg)
input(s, arg) == Start(s, "input", arg)

\* server.js:416-445, 457-491, 501-506, 518-523  the page operations of a
\* browser-action, click, scroll or input settled (ok), and for the first two
\* the capture that follows: page.content() and page.title() are awaited with
\* no .catch of their own (lines 418-422, 471-475), so a rejection (~captured)
\* lands in the handler's catch block like a failed operation
Settled(s, ok, captured) ==
  /\ cmdT[s].pc \in {"browser-action", "click", "scroll", "input"}
  /\ ok => PageUsable(s, cmdT[s].p)
  /\ ~captured => ok /\ cmdT[s].pc \in {"browser-action", "click"}
  /\ cmdT' = [cmdT EXCEPT ![s] = NoTask]
  /\ LET ev == CASE cmdT[s].pc = "browser-action" /\ ok /\ captured ->
                      <<"page-content", "loading:false">>
                 [] cmdT[s].pc = "browser-action" ->
                      <<"error:ACTION_ERROR", "loading:false">>
                 [] cmdT[s].pc = "click" /\ ok /\ captured -> <<"page-content">>
                 [] OTHER -> <<>>
     IN IF ok /\ cmdT[s].pc \in {"browser-action", "click"}
        THEN EmitAfterCapture(s, ev, captured)
        ELSE Emit(s, ev, TRUE)
  /\ Forget(s, pageState[s], sessions[s], NoTask, cleanT[s])
  /\ UNCHANGED <<poolVars, regVars, sock, initT, cleanT, otherVars>>

\* server.js:527-530  keep-alive: rearms the timer whether or not the id has a
\* session, and answers 'pong'
ping(s) ==
  /\ sock[s] = "open"
  /\ Quiet(s)
  /\ resetSessionTimeout(s)
  /\ cmdLog' = [cmdLog EXCEPT ![s] = LogOf("ping", "", sessions[s] # 0, <<"pong">>, TRUE)]
  /\ UNCHANGED <<poolVars, sessions, cleaned, sock, pageVars, initT, cmdT, cleanT, otherVars>>

\* ------------------------------------------------------------ specification
\* the server right after start-up: no browser, empty tables, no client
InitServer ==
  /\ browserInstance = 0
  /\ browserRestartInProgress = FALSE
  /\ launched = 0
  /\ connected = {}
  /\ restartN = [at \in {"close", "settle", "launch", "returned"} |-> 0]
  /\ sessions = [s \in Sockets |-> 0]
  /\ sessionTimers = [s \in Sockets |-> 0]
  /\ timers = [s \in Sockets |-> <<>>]
  /\ sinceTouch = [s \in Sockets |-> 0]
  /\ cleaned = {}
  /\ sock = [s \in Sockets |-> "idle"]
  /\ pageState = [s \in Sockets |-> [k \in PageIds |-> "none"]]
  /\ pageBrowser = [s \in Sockets |-> [k \in PageIds |-> 0]]
  /\ detachCalls = [s \in Sockets |-> [k \in PageIds |-> 0]]
  /\ closeCalls = [s \in Sockets |-> [k \in PageIds |-> 0]]
  /\ initT = [s \in Sockets |-> NoTask]
  /\ cmdT = [s \in Sockets |-> NoTask]
  /\ cmdLog = [s \in Sockets |-> NoLog]
  /\ cleanT = [s \in Sockets |-> [n \in Slots |-> NoClean]]
  /\ shutdown = [pc |-> "off", s |-> 0, b |-> 0]

Off == [pc |-> "off"]

Init == InitServer /\ retry = Off /\ nav = Off /\ doc = Off

\* the handlers of connection s
Handlers(s) ==
  \/ Connection(s)
  \/ Disconnect(s)
  \/ init(s)
  \/ \E ok \in BOOLEAN : InitLaunched(s, ok)
  \/ InitRetry(s)
  \/ InitNewPage(s)
  \/ \E ok \in BOOLEAN : InitSetup(s, ok)
  \/ \E arg \in {"nopayload", "badurl", "url"} : navigate(s, arg)
  \/ \E ok, captured \in BOOLEAN : NavigateGoto(s, ok, captured)
  \/ \E arg \in {"nopayload", "back", "forward", "refresh", "bogus"} : browserAction(s, arg)
  \/ \E arg \in {"nopayload", "payload"} : click(s, arg)
  \/ \E arg \in {"nopayload", "payload"} : scroll(s, arg)
  \/ \E arg \in {"nopayload", "payload"} : input(s, arg)
  \/ \E ok, captured \in BOOLEAN : Settled(s, ok, captured)
  \/ ping(s)
  \/ \E n \in Slots : CleanupDetached(s, n)
  \/ \E n \in Slots : CleanupClosed(s, n)
  \/ \E h \in Handles : SessionTimeout(s, h)

Pool ==
  \/ \E b \in Browsers : BrowserDisconnected(b)
  \/ \E at \in {"close", "settle"} : RestartStep(at)
  \/ \E ok \in BOOLEAN : RestartLaunched(ok)

\* One connection with every handler, the pool and the clock.
Next ==
  \/ Pool
  \/ Handlers(Least(Sockets))
  \/ Tick

Spec == Init /\ [][Next]_vars

\* Several connections connecting, initialising and leaving, with no other
\* command, no browser crash and no clock (so no eviction: Spec has those).
Clients(s) ==
  \/ Connection(s)
  \/ Disconnect(s)
  \/ init(s)
  \/ \E ok \in BOOLEAN : InitLaunched(s, ok)
  \/ InitRetry(s)
  \/ InitNewPage(s)
  \/ \E ok \in BOOLEAN : InitSetup(s, ok)
  \/ \E n \in Slots : CleanupDetached(s, n)
  \/ \E n \in Slots : CleanupClosed(s, n)

ClientsNext == \E s \in Sockets : Clients(s)

ClientsSpec == Init /\ [][ClientsNext]_vars

\* --------------------------------------------------------- gracefulShutdown
\* shutdown.pc: "off", "sessions" (awaiting cleanupSession of id shutdown.s),
\* "browser" (awaiting close() of browser shutdown.b), "server" (server.close
\* was called) or "exited" (process.exit ran)

\* server.js:541-555  gracefulShutdown from the top of its loop to its next
\* await: cleanupSession of an id still in the registry (up to that function's
\* own first await), else close() of the pooled browser, else server.close()
ShutdownAdvance ==
  IF \E s \in Sockets : sessions[s] # 0
  THEN /\ \E s \in {t \in Sockets : sessions[t] # 0} :
            /\ cleanupSession(s, "shutdown", timers)
            /\ shutdown' = [pc |-> "sessions", s |-> s, b |-> 0]
       /\ UNCHANGED <<poolVars, sessions, cleaned, sock, pageState, pageBrowser,
                      closeCalls, initT, cmdT, cmdLog, pureVars>>
  ELSE /\ shutdown' = IF browserInstance # 0
                      THEN [pc |-> "browser", s |-> 0, b |-> browserInstance]
                      ELSE [pc |-> "server", s |-> 0, b |-> 0]
       /\ UNCHANGED <<poolVars, regVars, sock, pageVars, taskVars, pureVars>>

\* server.js:558-559,566-569  SIGTERM, SIGINT or an uncaught exception
Signal ==
  /\ shutdown.pc = "off"
  /\ ShutdownAdvance

\* the cleanupSession that gracefulShutdown awaits has returned
ShutdownResumable ==
  /\ shutdown.pc = "sessions"
  /\ \A n \in Slots : cleanT[shutdown.s][n].by # "shutdown"

\* server.js:542-544  the loop goes on once the awaited cleanupSession returned
ShutdownResume ==
  /\ ShutdownResumable
  /\ ShutdownAdvance

\* server.js:547-555, 92-96  close() of the browser settled: its process is
\* gone, which runs the 'disconnected' listener getBrowser attached to it
\* (browserInstance = null; restartBrowser()); then server.close() is called
ShutdownBrowserClosed ==
  /\ shutdown.pc = "browser"
  /\ IF shutdown.b \in connected
     THEN /\ connected' = connected \ {shutdown.b}
          /\ browserInstance' = 0
          /\ restartBrowser
          /\ UNCHANGED launched
     ELSE UNCHANGED poolVars
  /\ shutdown' = [pc |-> "server", s |-> 0, b |-> 0]
  /\ UNCHANGED <<regVars, sock, pageVars, taskVars, pureVars>>

\* server.js:552-555  the callback of server.close runs once every connection
\* has ended: process.exit(0)
ProcessExit ==
  /\ shutdown.pc = "server"
  /\ \A s \in Sockets : sock[s] # "open"
  /\ shutdown' = [shutdown EXCEPT !.pc = "exited"]
  /\ UNCHANGED <<poolVars, regVars, sock, pageVars, taskVars, pureVars>>

\* the process lives and gracefulShutdown is not about to resume: a resolved
\* await resumes before any other event is handled
Running == shutdown.pc # "exited" /\ ~ShutdownResumable

\* server.js:552  after server.close() no new connection is accepted
Listening == shutdown.pc \notin {"server", "exited"}

\* One connection that connects, initialises and leaves, the restart of the
\* browser, and one run of gracefulShutdown; no other command, no crash and no
\* clock.
ShutdownNext ==
  \/ ShutdownResume
  \/ Running /\ Signal
  \/ Running /\ ShutdownBrowserClosed
  \/ Running /\ ProcessExit
  \/ Running /\ Listening /\ \E s \in {Least(Sockets)} : Connection(s)
  \/ Running /\ \E s \in {Least(Sockets)} : Disconnect(s)
  \/ Running /\ \E s \in {Least(Sockets)} : init(s)
  \/ Running /\ \E s \in {Least(Sockets)} : \E ok \in BOOLEAN : InitLaunched(s, ok)
  \/ Running /\ \E s \in {Least(Sockets)} : InitRetry(s)
  \/ Running /\ \E s \in {Least(Sockets)} : InitNewPage(s)
  \/ Running /\ \E s \in {Least(Sockets)} : \E ok \in BOOLEAN : InitSetup(s, ok)
  \/ Running /\ \E s \in {Least(Sockets)} : \E n \in Slots : CleanupDetached(s, n)
  \/ Running /\ \E s \in {Least(Sockets)} : \E n \in Slots : CleanupClosed(s, n)
  \/ Running /\ \E at \in {"close", "settle"} : RestartStep(at)
  \/ Running /\ \E ok \in BOOLEAN : RestartLaunched(ok)

ShutdownSpec == Init /\ [][ShutdownNext]_vars

\* ----------------------------------------------------------- retryOperation
\* calls of retryOperation checked on their own
MaxRetriesArg == 4
BaseDelays == {1, RETRY_DELAY}

\* a loop that does not stop at the last attempt: the variant C7 must tell apart
LastAttemptLate(i, retries) == i = retries

\* server.js:140  the attempt that just failed was the last one
LastAttempt(i, retries) == i = retries - 1

\* server.js:142  the delay after failed attempt i (0-based)
Backoff(delay, i) == delay * 2 ^ i

\* retryOperation(operation, retries, delay) is called with an operation whose
\* first `fails` invocations reject (invocation n rejects with error n) and whose
\* later ones resolve
RetryInit ==
  /\ InitServer /\ nav = Off /\ doc = Off
  /\ retry \in {[pc |-> "attempt", retries |-> r, delay |-> d, fails |-> k, i |-> 0,
                 calls |-> 0, delays |-> <<>>, result |-> <<>>] :
                  r \in 0..MaxRetriesArg, d \in BaseDelays, k \in 0..MaxRetriesArg}

\* server.js:134-143  one turn of the loop: the loop test, operation() and what
\* follows its settling
RetryAttempt ==
  /\ retry.pc = "attempt"
  /\ retry' =
       IF ~(retry.i < retry.retries)
       THEN [retry EXCEPT !.pc = "done", !.result = <<"undefined">>]
       ELSE IF retry.calls + 1 > retry.fails
       THEN [retry EXCEPT !.pc = "done", !.calls = @ + 1, !.result = <<"value">>]
       ELSE IF LastAttempt(retry.i, retry.retries)
       THEN [retry EXCEPT !.pc = "done", !.calls = @ + 1,
                          !.result = <<"error", retry.calls + 1>>]
       ELSE [retry EXCEPT !.pc = "sleep", !.calls = @ + 1,
                          !.delays = Append(@, Backoff(retry.delay, retry.i))]
  /\ UNCHANGED <<serverVars, nav, doc>>

\* server.js:134,142  the delay elapsed: i++
RetrySleep ==
  /\ retry.pc = "sleep"
  /\ retry' = [retry EXCEPT !.pc = "attempt", !.i = @ + 1]
  /\ UNCHANGED <<serverVars, nav, doc>>

RetryNext == RetryAttempt \/ RetrySleep

RetrySpec == RetryInit /\ [][RetryNext]_vars

\* ------------------------------------------------------------ character strings
HTTP == <<"h", "t", "t", "p", ":", "/", "/">>
HTTPS == <<"h", "t", "t", "p", "s", ":", "/", "/">>
FTP == <<"f", "t", "p", ":", "/", "/">>
UPPER == <<"H", "T", "T", "P", ":", "/", "/">>

RECURSIVE ConcatFrom(_, _)
ConcatFrom(f, k) == IF k > Len(f) THEN <<>> ELSE f[k] \o ConcatFrom(f, k + 1)
\* the fragments of f joined in order
Concat(f) == ConcatFrom(f, 1)

\* ------------------------------------------------- navigate: URL normalization
\* Strings are sequences of one-character strings.  The normalization of the
\* navigate handler is checked on its own, on urls put together from fragments.
MaxUrlParts == 3
UrlFragments ==
  { <<" ">>, <<"\t">>, <<".">>, <<"a">>,
    HTTP, HTTPS, FTP, UPPER }
UrlInputs ==
  UNION {{Concat(f) : f \in [1..n -> UrlFragments]} : n \in 0..MaxUrlParts}

\* String.prototype.trim strips white space and line terminators at both ends
WhiteSpace == {" ", "\t"}
RECURSIVE TrimStart(_)
TrimStart(u) ==
  IF u # <<>> /\ Head(u) \in WhiteSpace THEN TrimStart(Tail(u)) ELSE u
RECURSIVE TrimEnd(_)
TrimEnd(u) ==
  IF u # <<>> /\ u[Len(u)] \in WhiteSpace THEN TrimEnd(SubSeq(u, 1, Len(u) - 1)) ELSE u
Trim(u) == TrimEnd(TrimStart(u))

StartsWith(u, pre) == Len(u) >= Len(pre) /\ SubSeq(u, 1, Len(pre)) = pre
Includes(u, c) == \E k \in 1..Len(u) : u[k] = c

\* encodeURIComponent keeps letters, digits and - _ . ! ~ * ' ( ) and writes
\* every other character as the %XX of its UTF-8 bytes
EncodeChar(c) ==
  CASE c = " " -> <<"%", "2", "0">>
    [] c = "\t" -> <<"%", "0", "9">>
    [] c = ":" -> <<"%", "3", "A">>
    [] c = "/" -> <<"%", "2", "F">>
    [] OTHER -> <<c>>
RECURSIVE encodeURIComponent(_)
encodeURIComponent(u) ==
  IF u = <<>> THEN <<>> ELSE EncodeChar(Head(u)) \o encodeURIComponent(Tail(u))

\* the literal https://www.google.com/search?q= of server.js:329, kept as one
\* symbol of the result
SearchPrefix == <<"https://www.google.com/search?q=">>

\* server.js:319-333  the value handed to page.goto, or the thrown error
normalizedUrl(url) ==
  IF url = <<>>
  THEN <<"Error: Invalid URL provided">>
  ELSE LET t == Trim(url)
       IN IF ~StartsWith(t, HTTP) /\ ~StartsWith(t, HTTPS)
          THEN IF Includes(t, " ") \/ ~Includes(t, ".")
               THEN SearchPrefix \o encodeURIComponent(t)
               ELSE HTTPS \o t
          ELSE t

NavInit ==
  /\ InitServer /\ retry = Off /\ doc = Off
  /\ nav \in {[pc |-> "url", url |-> u, out |-> <<>>] : u \in UrlInputs}

\* server.js:319-333
NavNormalize ==
  /\ nav.pc = "url"
  /\ nav' = [nav EXCEPT !.pc = "normalized", !.out = normalizedUrl(nav.url)]
  /\ UNCHANGED <<serverVars, retry, doc>>

NavSpec == NavInit /\ [][NavNormalize]_vars

\* ---------------------------------------------------------------- sanitizeHTML
\* sanitizeHTML is checked on its own, on documents put together from fragments.
MaxHtmlParts == 3
HtmlFragments ==
  { <<"<", "s", "c", "r", "i", "p", "t", ">">>,
    <<"<", "/", "s", "c", "r", "i", "p", "t", ">">>,
    <<"<", "S", "C", "R", "I", "P", "T", ">">>,
    <<"<", "s", "c", "r">>,
    <<"i", "p", "t", ">", "a", "<", "/", "s", "c", "r", "i", "p", "t", ">">>,
    <<"j", "a", "v", "a", "s", "c", "r", "i", "p", "t", ":">>,
    <<"j", "a", "v", "a">>,
    <<"s", "c", "r", "i", "p", "t", ":">>,
    <<"<", "p", " ", "o">>,
    <<"n", "c", "l", "i", "c", "k", "=", "\"", "a", "\"", ">">>,
    <<"<", "p", " ", "c", "o", "n", "t", "e", "n", "t", "=", "\"", "a", "\"", ">">>,
    <<" ">> }
HtmlInputs ==
  UNION {{Concat(f) : f \in [1..n -> HtmlFragments]} : n \in 0..MaxHtmlParts}

\* the i flag: letters compare by their lower-case form
Lower(c) ==
  CASE c = "S" -> "s" [] c = "C" -> "c" [] c = "R" -> "r"
    [] c = "I" -> "i" [] c = "P" -> "p" [] c = "T" -> "t"
    [] c = "H" -> "h" [] c = "E" -> "e" [] c = "A" -> "a" [] c = "D" -> "d"
    [] OTHER -> c
\* \w and \s and the quote class ["']
WordChars == {"a", "b", "c", "d", "e", "f", "h", "i", "j", "k", "l", "m", "n", "o",
              "p", "r", "s", "t", "u", "v", "y",
              "S", "C", "R", "I", "P", "T", "H", "E", "A", "D"}
Quotes == {"\"", "'"}

\* the literal pat matches s at position i, ignoring case
MatchesAt(s, i, pat) ==
  /\ Len(s) >= i + Len(pat) - 1
  /\ \A k \in 1..Len(pat) : Lower(s[i + k - 1]) = pat[k]

\* a greedy X* from position i: the first position at or after i whose
\* character is not in keep (resp. is in stop), or Len(s) + 1
SkipWhile(s, i, keep) ==
  CHOOSE j \in i..(Len(s) + 1) :
    /\ j = Len(s) + 1 \/ s[j] \notin keep
    /\ \A k \in i..(j - 1) : s[k] \in keep
SkipUntil(s, i, stop) ==
  CHOOSE j \in i..(Len(s) + 1) :
    /\ j = Len(s) + 1 \/ s[j] \in stop
    /\ \A k \in i..(j - 1) : s[k] \notin stop

OpenTag == <<"<", "s", "c", "r", "i", "p", "t">>
CloseTag == <<"<", "/", "s", "c", "r", "i", "p", "t", ">">>
JsScheme == <<"j", "a", "v", "a", "s", "c", "r", "i", "p", "t", ":">>

\* server.js:195  /<script\b[^<]*(?:(?!<\/script>)<[^<]*)*<\/script>/gi at i:
\* the position after the match, 0 when there is none.  The match runs from
\* <script at a word boundary to the first </script> after it.
ScriptEnd(s, i) ==
  IF MatchesAt(s, i, OpenTag) /\ i + 7 <= Len(s) /\ s[i + 7] \notin WordChars
  THEN LET qs == {q \in (i + 7)..Len(s) : MatchesAt(s, q, CloseTag)}
       IN IF qs = {} THEN 0
          ELSE (CHOOSE q \in qs : \A r \in qs : q <= r) + Len(CloseTag)
  ELSE 0

\* the common prefix on\w+\s*=\s* of server.js:196-197 at i: the position after
\* it, 0 when it does not match
HandlerValueAt(s, i) ==
  IF MatchesAt(s, i, <<"o", "n">>)
  THEN LET w == SkipWhile(s, i + 2, WordChars)
           e == SkipWhile(s, w, WhiteSpace)
       IN IF w > i + 2 /\ e <= Len(s) /\ s[e] = "="
          THEN SkipWhile(s, e + 1, WhiteSpace)
          ELSE 0
  ELSE 0

\* server.js:196  /on\w+\s*=\s*["'][^"']*["']/gi at i
QuotedHandlerEnd(s, i) ==
  LET v == HandlerValueAt(s, i)
  IN IF v # 0 /\ v <= Len(s) /\ s[v] \in Quotes
     THEN LET c == SkipUntil(s, v + 1, Quotes)
          IN IF c <= Len(s) THEN c + 1 ELSE 0
     ELSE 0

\* server.js:197  /on\w+\s*=\s*[^\s>]*/gi at i
BareHandlerEnd(s, i) ==
  LET v == HandlerValueAt(s, i)
  IN IF v # 0 THEN SkipUntil(s, v, WhiteSpace \cup {">"}) ELSE 0

\* server.js:198  /javascript:/gi at i
JsSchemeEnd(s, i) ==
  IF MatchesAt(s, i, JsScheme) THEN i + Len(JsScheme) ELSE 0

\* the k-th pattern of server.js:195-198
MatchEnd(k, s, i) ==
  CASE k = 1 -> ScriptEnd(s, i)
    [] k = 2 -> QuotedHandlerEnd(s, i)
    [] k = 3 -> BareHandlerEnd(s, i)
    [] k = 4 -> JsSchemeEnd(s, i)

\* String.prototype.replace(pattern, '') with the g flag: one scan from the
\* left over the string as it was, dropping each match and going on after it
RECURSIVE Replace(_, _, _)
Replace(k, s, i) ==
  IF i > Len(s) THEN <<>>
  ELSE LET e == MatchEnd(k, s, i)
       IN IF e # 0 THEN Replace(k, s, e) ELSE <<s[i]>> \o Replace(k, s, i + 1)

\* server.js:192-201
sanitizeHTML(html) ==
  Replace(4, Replace(3, Replace(2, Replace(1, html, 1), 1), 1), 1)

DocInit ==
  /\ InitServer /\ retry = Off /\ nav = Off
  /\ doc \in {[pc |-> "captured", html |-> h, out |-> <<>>] : h \in HtmlInputs}

\* server.js:356
Sanitize ==
  /\ doc.pc = "captured"
  /\ doc' = [doc EXCEPT !.pc = "sanitized", !.out = sanitizeHTML(doc.html)]
  /\ UNCHANGED <<serverVars, retry, nav>>

SanitizeSpec == DocInit /\ [][Sanitize]_vars

\* ------------------------------------------------- navigate: snapshot, base tag
\* The snapshot of the navigate handler is checked on its own, on captured
\* documents put together from fragments and on final urls that may hold a $.
SnapFragments ==
  { <<"<", "h", "t", "m", "l", ">">>,
    <<"<", "h", "e", "a", "d", ">">>,
    <<"<", "H", "E", "A", "D", ">">>,
    <<"<", "h", "e", "a", "d", " ", "a", "=", "\"", "a", "\"", ">">>,
    <<"<", "t", "i", "t", "l", "e", ">", "a", "<", "/", "t", "i", "t", "l", "e", ">">>,
    <<"<", "/", "h", "e", "a", "d", ">">>,
    <<"<", "h", "e", "a", "d", "e", "r", ">">>,
    <<"<", "b", "o", "d", "y", ">">> }
SnapInputs ==
  UNION {{Concat(f) : f \in [1..n -> SnapFragments]} : n \in 0..MaxHtmlParts}
SnapUrls == { <<"u">>, <<"u", "$", "&">>, <<"$", "$", "u">> }

HeadTag == <<"<", "h", "e", "a", "d", ">">>
BaseOpen == <<"<", "b", "a", "s", "e", " ", "h", "r", "e", "f", "=", "\"">>
BaseClose == <<"\"", ">">>

\* String.prototype.replace with a string as replacement: in it $$ stands for $
\* and $& for the matched text m
RECURSIVE Expand(_, _)
Expand(r, m) ==
  IF r = <<>> THEN <<>>
  ELSE IF Len(r) >= 2 /\ r[1] = "$" /\ r[2] = "$"
  THEN <<"$">> \o Expand(SubSeq(r, 3, Len(r)), m)
  ELSE IF Len(r) >= 2 /\ r[1] = "$" /\ r[2] = "&"
  THEN m \o Expand(SubSeq(r, 3, Len(r)), m)
  ELSE <<Head(r)>> \o Expand(Tail(r), m)

\* server.js:359-362  sanitizedHTML.replace(/<head>/i, `<head><base href="${currentUrl}">`):
\* the first match only
modifiedHTML(html, currentUrl) ==
  LET at == {i \in 1..Len(html) : MatchesAt(html, i, HeadTag)}
  IN IF at = {} THEN html
     ELSE LET i == Least(at)
              m == SubSeq(html, i, i + Len(HeadTag) - 1)
          IN SubSeq(html, 1, i - 1)
               \o Expand(HeadTag \o BaseOpen \o currentUrl \o BaseClose, m)
               \o SubSeq(html, i + Len(HeadTag), Len(html))

\* server.js:349-353  page.content() and page.url() resolved
SnapInit ==
  /\ InitServer /\ retry = Off /\ nav = Off
  /\ doc \in {[pc |-> "captured", html |-> h, out |-> <<>>, url |-> u, event |-> <<>>] :
                h \in SnapInputs, u \in SnapUrls}

\* server.js:359-368  the base tag is injected and page-content emitted
EmitPageContent ==
  /\ doc.pc = "sanitized"
  /\ doc' = [doc EXCEPT !.pc = "emitted",
                        !.event = <<[html |-> modifiedHTML(doc.out, doc.url),
                                     url |-> doc.url]>>]
  /\ UNCHANGED <<serverVars, retry, nav>>

SnapNext == Sanitize \/ EmitPageContent

SnapSpec == SnapInit /\ [][SnapNext]_vars

\* ------------------------------------------------------------------ claims
\* C1: in every reachable state the registry holds at most MAX_SESSIONS entries,
\* also when more clients than that connect below capacity and then send init.
C1_RegistryWithinCapacity == Size <= MAX_SESSIONS

\* C2: an attempt to create a session (a connection, or the init of an id that
\* has no entry) arriving while the registry holds MAX_SESSIONS entries is
\* answered with the error MAX_SESSIONS_REACHED alone and runs no init handler, so
\* it allocates no page and adds no entry.
C2_FullRegistryRejects ==
  \A s \in Sockets :
    (cmdLog[s].cmd \in {"connection", "init"} /\ cmdLog[s].full /\ ~cmdLog[s].had)
      => /\ cmdLog[s].ev = <<"error:MAX_SESSIONS_REACHED">>
         /\ initT[s].pc = "idle"
         /\ sessions[s] = 0

\* puppeteer.launch calls that have not settled yet
LaunchesInFlight ==
  Cardinality({s \in Sockets : initT[s].pc = "launch"}) + restartN["launch"]

\* C3: at most one browser process exists at a time, and concurrent getBrowser
\* calls that find no connected instance (the restart's included) cause one
\* launch, not one each.
C3_OneBrowserOneLaunch ==
  /\ Cardinality(connected) <= 1
  /\ LaunchesInFlight <= 1

\* C4: over any two cleanupSession calls on the same session, overlapping ones
\* included, the control handle is detached at most once and the page closed at
\* most once.
C4_ReleasedAtMostOnce ==
  \A s \in Sockets, p \in PageIds :
    detachCalls[s][p] <= 1 /\ closeCalls[s][p] <= 1

\* C5 (a): an armed timer of an id expires exactly SESSION_TIMEOUT after the id's
\* last touch, so no timer armed by an earlier touch evicts a touched session.
C5_ExpiryIsTouchPlusWindow ==
  \A s \in Sockets : \A h \in DOMAIN timers[s] :
    timers[s][h] + sinceTouch[s] = SESSION_TIMEOUT

\* C5 (b): a registered session that is not being cleaned up has its timer
\* armed, so it is removed when the idle window ends.
C5_IdleSessionHasTimer ==
  \A s \in Sockets :
    (sessions[s] # 0 /\ \A n \in Slots : cleanT[s][n].pc = "idle")
      => sessionTimers[s] \in DOMAIN timers[s]

\* C5 (c): cleanup runs once for a session its timer evicts.
C5_EvictedOnce ==
  \A s \in Sockets, n \in Slots :
    (cleanT[s][n].pc # "idle" /\ cleanT[s][n].by = "timer")
      => detachCalls[s][cleanT[s][n].p] = 1

\* C5: each touch sets the expiry to touch time + SESSION_TIMEOUT, an untouched
\* session is evicted when the window ends with cleanup running exactly once
\* for it, and a touched session is not evicted by an earlier-armed timer.
C5_IdleEviction ==
  C5_ExpiryIsTouchPlusWindow /\ C5_IdleSessionHasTimer /\ C5_EvictedOnce

\* C6: every id has at most one armed eviction timer, the one the timer table
\* holds: each rearm cancels the timer armed before.
C6_SingleArmedTimer ==
  \A s \in Sockets : DOMAIN timers[s] \subseteq {sessionTimers[s]}

\* C6 witness: a keep-alive on a registered session has replaced its armed timer
\* by a new one.
C6_Rearmed ==
  \E s \in Sockets :
    /\ cmdLog[s].cmd = "ping" /\ cmdLog[s].had
    /\ sessions[s] # 0
    /\ sessionTimers[s] # 1
    /\ DOMAIN timers[s] = {sessionTimers[s]}

Count(ev, e) == Cardinality({i \in DOMAIN ev : ev[i] = e})

\* C8: a navigate on an existing session emits loading:true, page-content,
\* loading:false, or ends with the error NAVIGATION_ERROR then loading:false;
\* never both page-content and the error; loading:false once, last, and after a
\* loading:true of the same command.
C8_NavigateEventOrder ==
  \A s \in Sockets :
    (cmdLog[s].cmd = "navigate" /\ cmdLog[s].had) =>
      LET ev == cmdLog[s].ev
          n == Len(ev)
      IN /\ ~(Count(ev, "page-content") > 0 /\ Count(ev, "error:NAVIGATION_ERROR") > 0)
         /\ \A i \in DOMAIN ev :
              ev[i] = "loading:false" =>
                i = n /\ \E j \in 1..(i - 1) : ev[j] = "loading:true"
         /\ cmdLog[s].done =>
              \/ ev = <<"loading:true", "page-content", "loading:false">>
              \/ /\ n >= 2
                 /\ ev[n - 1] = "error:NAVIGATION_ERROR"
                 /\ ev[n] = "loading:false"

\* the delays base*2^0 .. base*2^(n-1)
Delays(base, n) == [j \in 1..n |-> base * 2 ^ (j - 1)]

\* C7: for retries >= 1, an operation failing its first k < retries attempts is
\* invoked k+1 times with the delays base*2^0..base*2^(k-1) in between and its
\* value returned; one that keeps failing is invoked retries times with
\* retries-1 delays, none after the last failure, and the last error re-raised.
C7_RetrySchedule ==
  (retry.pc = "done" /\ retry.retries >= 1) =>
    IF retry.fails < retry.retries
    THEN /\ retry.calls = retry.fails + 1
         /\ retry.delays = Delays(retry.delay, retry.fails)
         /\ retry.result = <<"value">>
    ELSE /\ retry.calls = retry.retries
         /\ retry.delays = Delays(retry.delay, retry.retries - 1)
         /\ retry.result = <<"error", retry.retries>>

\* C7 witness: a call with the default arguments has finished after two
\* failures, two delays and a success.
C7_TwoFailuresThenValue ==
  /\ retry.pc = "done" /\ retry.retries = MAX_RETRIES /\ retry.delay = RETRY_DELAY
  /\ retry.fails = 2 /\ retry.result = <<"value">>
  /\ retry.delays = <<RETRY_DELAY, 2 * RETRY_DELAY>>

\* the reading of "already has a scheme": letters followed by ://
Letters == {"a", "f", "h", "p", "s", "t", "H", "T", "P"}
HasScheme(u) ==
  \E n \in 1..Len(u) :
    /\ \A k \in 1..n : u[k] \in Letters
    /\ Len(u) >= n + 3 /\ SubSeq(u, n + 1, n + 3) = <<":", "/", "/">>

\* the normalization as the claim states it
StatedUrl(url) ==
  LET t == Trim(url)
  IN IF HasScheme(t) THEN t
     ELSE IF (\E c \in WhiteSpace : Includes(t, c)) \/ ~Includes(t, ".")
          THEN SearchPrefix \o encodeURIComponent(t)
          ELSE HTTPS \o t

\* C9: for every (non-empty) string url, navigate hands page.goto the trimmed
\* value itself when it has a scheme, else the search URL of the percent-encoded
\* value when it contains whitespace or no dot, else https:// + value.
C9_NormalizedAsStated ==
  (nav.pc = "normalized" /\ nav.url # <<>>) => nav.out = StatedUrl(nav.url)

Contains(s, pat) ==
  \E i \in 1..Len(s) : Len(s) >= i + Len(pat) - 1 /\ SubSeq(s, i, i + Len(pat) - 1) = pat

\* a <script ...> opening tag with a </script> after it
HasScriptBlock(s) ==
  \E i \in 1..Len(s) : \E q \in (i + 1)..Len(s) :
    /\ MatchesAt(s, i, OpenTag) /\ Len(s) > i + 6 /\ s[i + 7] \notin WordChars
    /\ q > i + 6 /\ MatchesAt(s, q, CloseTag)

\* an attribute on...="..." inside a tag
HasHandlerAttribute(s) ==
  \E i \in 2..Len(s) : s[i - 1] \in WhiteSpace /\ QuotedHandlerEnd(s, i) # 0

\* C10: the output of sanitizeHTML contains no script block, no on*="..."
\* attribute and no substring javascript:, for every input.
C10_OutputIsClean ==
  doc.pc = "sanitized" =>
    /\ ~HasScriptBlock(doc.out)
    /\ ~HasHandlerAttribute(doc.out)
    /\ ~Contains(doc.out, JsScheme)

\* s holds nothing sanitizeHTML is meant to remove: no <script opening, no
\* javascript: and no attribute (a name at the start or after white space)
\* beginning with on
Benign(s) ==
  \A i \in 1..Len(s) :
    /\ ~MatchesAt(s, i, OpenTag)
    /\ ~MatchesAt(s, i, JsScheme)
    /\ (i = 1 \/ s[i - 1] \in WhiteSpace) => HandlerValueAt(s, i) = 0

\* C11: markup that is no script block, no on* attribute and no javascript: URI
\* comes out of sanitizeHTML byte for byte as it went in, attributes such as
\* content= included.
C11_UnrelatedMarkupKept ==
  (doc.pc = "sanitized" /\ Benign(doc.html)) => doc.out = doc.html

\* the base tag whose href is url
BaseTag(url) == BaseOpen \o url \o BaseClose

\* the opening head tags of s: <head followed by > or by white space
HeadsOf(s) ==
  {i \in 1..Len(s) : /\ MatchesAt(s, i, SubSeq(HeadTag, 1, 5))
                     /\ Len(s) >= i + 5
                     /\ s[i + 5] \in WhiteSpace \cup {">"}}

\* s with the base tag of url right after its first opening head tag
WithBase(s, url) ==
  LET e == SkipUntil(s, Least(HeadsOf(s)), {">"})
  IN SubSeq(s, 1, e) \o BaseTag(url) \o SubSeq(s, e + 1, Len(s))

\* s in lower case: the rewritten head tag is compared up to letter case
LowerCase(s) == [i \in 1..Len(s) |-> Lower(s[i])]

\* C12: the html of the page-content event of a navigate is the sanitized
\* document with one base tag right after its first opening head tag, whatever
\* attributes that tag carries, and the href of the base tag is the url field of
\* the event, the final url of the page.
C12_BaseTagAfterHead ==
  (doc.pc = "emitted" /\ HeadsOf(doc.out) # {}) =>
    /\ LowerCase(doc.event[1].html) = LowerCase(WithBase(doc.out, doc.url))
    /\ doc.event[1].url = doc.url

\* C13: every open page is the page of its connection's registry entry (or the
\* page an init handler has just created and is still setting up), so no init,
\* repeated init, failed init, timeout or disconnect leaves an open page that no
\* entry owns.
C13_NoOrphanPage ==
  \A s \in Sockets, k \in PageIds :
    pageState[s][k] = "open" =>
      \/ sessions[s] = k
      \/ initT[s].pc = "setup" /\ initT[s].p = k

\* the handler of command c of connection s starts its page operation
Started(s, c) == cmdT[s].pc = "idle" /\ cmdT'[s].pc = c

\* the step replaces the timer of id s by a new one with the whole window left
Rearmed(s) ==
  /\ sessionTimers'[s] # sessionTimers[s]
  /\ DOMAIN timers'[s] = {sessionTimers'[s]}
  /\ timers'[s][sessionTimers'[s]] = SESSION_TIMEOUT

TimerKept(s) == sessionTimers'[s] = sessionTimers[s] /\ timers'[s] = timers[s]

\* init (on its success), navigate, browser-action, click and keep-alive rearm
RearmedByTheOthers(s) ==
  /\ (initT[s].pc = "setup" /\ sessions'[s] = initT[s].p /\ initT'[s].pc = "idle"
        /\ cmdLog'[s].ev = <<"ready">>) => Rearmed(s)
  /\ \A c \in {"goto", "browser-action", "click"} : Started(s, c) => Rearmed(s)
  /\ (cmdLog'[s] # cmdLog[s] /\ cmdLog'[s].cmd = "ping") => Rearmed(s)

RestartsRunning == restartN["close"] + restartN["settle"] + restartN["launch"]

\* C15: at most one restart runs at a time and the flag is set exactly while it
\* runs, so it is cleared whenever a restart ends, and a disconnect arriving
\* during a restart starts no second one; every disconnect of a browser leaves
\* the pool handle at "no instance".
C15_OneRestart ==
  /\ [](/\ RestartsRunning <= 1
        /\ browserRestartInProgress <=> RestartsRunning = 1)
  /\ [][(connected' # connected /\ connected' \subseteq connected)
          => browserInstance' = 0]_vars

\* C15 witness: a restart is running and a disconnect that arrived meanwhile
\* was turned away at the guard.
C15_Coalesced ==
  /\ browserRestartInProgress
  /\ RestartsRunning = 1
  /\ restartN["returned"] = 1
  /\ browserInstance = 0

\* the disconnect handler of connection s has run to its end
DisconnectHandled(s) ==
  /\ sock[s] = "closed"
  /\ \A n \in Slots : cleanT[s][n].pc = "idle" \/ cleanT[s][n].by # "disconnect"

\* C16: once the disconnect handler of a connection has finished, the registry
\* has no entry and no page is open for that connection, also when an init or a
\* command of the connection was in flight when it disconnected.
C16_GoneAfterDisconnect ==
  \A s \in Sockets :
    DisconnectHandled(s) =>
      /\ sessions[s] = 0
      /\ \A k \in PageIds : pageState[s][k] # "open"

\* C17: once cleanupSession has deleted the entry of an id, by timeout or by
\* disconnect, the id gets no entry again and no page-content is emitted to it.
C17_ClosedIsTerminal ==
  /\ [](\A s \in cleaned : sessions[s] = 0)
  /\ [][\A s \in cleaned :
          Count(cmdLog'[s].ev, "page-content") <= Count(cmdLog[s].ev, "page-content")]_vars

\* C18: a navigate with a missing or non-string url, the event without any
\* payload included, and a browser-action with an unknown action, sent on a
\* session, end at once with their error event (NAVIGATION_ERROR, ACTION_ERROR):
\* no page operation is started and nothing is retried.
C18_MalformedFailsAtOnce ==
  \A s \in Sockets :
    cmdLog[s].had =>
      /\ (cmdLog[s].cmd = "navigate" /\ cmdLog[s].arg \in {"nopayload", "badurl"}) =>
           /\ cmdLog[s].done /\ cmdT[s].pc = "idle"
           /\ Count(cmdLog[s].ev, "error:NAVIGATION_ERROR") = 1
      /\ (cmdLog[s].cmd = "browser-action" /\ cmdLog[s].arg = "bogus") =>
           /\ cmdLog[s].done /\ cmdT[s].pc = "idle"
           /\ Count(cmdLog[s].ev, "error:ACTION_ERROR") = 1

\* C19: in navigate, browser-action and click a failed capture of html or title
\* is replaced by a placeholder and page-content is emitted all the same.
C19_CaptureNeverAborts ==
  \A s \in Sockets :
    cmdLog[s].cap = "failed" => Count(cmdLog[s].ev, "page-content") = 1

\* ---------------------------------------------------------------- claim C20
\* page p of connection s belongs to a browser process that has died
Stale(s, p) == pageBrowser[s][p] # 0 /\ pageBrowser[s][p] \notin connected

Errors(ev) == Count(ev, "error:NAVIGATION_ERROR") + Count(ev, "error:ACTION_ERROR")

\* a navigate or browser-action of connection s finishes in this step
Finishes(s) == cmdT[s].pc \in {"goto", "browser-action"} /\ cmdT'[s].pc = "idle"

C21_TimerImpliesSession ==
  \A s \in Sockets : sessionTimers[s] # 0 => sessions[s] # 0

\* ---------------------------------------------------------------- claim C22
\* gracefulShutdown has run to its last statement
ShutdownRan == shutdown.pc \in {"server", "exited"}

\* C22: once gracefulShutdown has run, the registry is empty and no browser
\* process is alive, and both stay so: closing the browser launches no new one
\* and no session is created afterwards.
C22_ShutdownIsFinal ==
  ShutdownRan => /\ \A s \in Sockets : sessions[s] = 0
                 /\ connected = {}

====
